---- MODULE Spec2Model ----
(***************************************************************************)
(* FetchRequestStage of the header downloader                              *)
(* (src/src/downloader/headers/fetch_request_stage.rs).                    *)
(*                                                                         *)
(* The stage (the "issuer") scans the shared header slices, sends a        *)
(* GetBlockHeaders request for every Empty slice through the sentry        *)
(* reactor (the "gateway") and turns the slice Waiting.  The slice store   *)
(* (HeaderSlices), the slice locks, the watch channel and the sentry       *)
(* reactor are collaborators whose code is not part of the stage; they     *)
(* are modelled from their contracts.  Other pipeline stages are one       *)
(* external process that locks one slice at a time and changes its status. *)
(***************************************************************************)
EXTENDS Integers, Sequences, FiniteSets, TLC

\* ------------------------------------------------------------- bounds
NumSlices == 3          \* slices in the store
MaxCalls == 2           \* calls of execute() the driver makes
QueueCap == 2           \* capacity of the gateway's send queue
MaxExtSteps == 1        \* status changes the other stages make

\* ---------------------------------------------------------- constants
HEADER_SLICE_SIZE == 192
NoTime == -1            \* request_time = None

\* ---------------------------------------------------------------- u64
\* last_request_id is an AtomicU64 and a request id a u64.  A u64 is written
\* as four 16-bit limbs, the most significant first.
LimbBase == 65536

\* The u64 of a small number n (0 <= n < 2^31).
U64(n) == <<0, 0, n \div LimbBase, n % LimbBase>>

\* u64::MAX
U64Max == <<LimbBase - 1, LimbBase - 1, LimbBase - 1, LimbBase - 1>>

\* u64::wrapping_add(v, 1): the carry runs up the limbs, and u64::MAX + 1 is 0.
WrappingInc(v) ==
    IF v = U64Max THEN <<0, 0, 0, 0>>
    ELSE IF v[4] < LimbBase - 1 THEN [v EXCEPT ![4] = @ + 1]
    ELSE IF v[3] < LimbBase - 1 THEN [v EXCEPT ![3] = @ + 1, ![4] = 0]
    ELSE IF v[2] < LimbBase - 1 THEN [v EXCEPT ![2] = @ + 1, ![3] = 0, ![4] = 0]
    ELSE <<v[1] + 1, 0, 0, 0>>

\* a < b on u64
U64Less(a, b) ==
    IF a[1] # b[1] THEN a[1] < b[1]
    ELSE IF a[2] # b[2] THEN a[2] < b[2]
    ELSE IF a[3] # b[3] THEN a[3] < b[3]
    ELSE a[4] < b[4]

SliceIds == 1 .. NumSlices
Statuses == {"Empty", "Waiting", "Downloaded"}
Holders == {"issuer", "ext", "owner"}

VARIABLES
    slices,             \* [SliceIds -> [start_block_num, status, request_time]]
    lock,               \* [SliceIds -> [upgradable, writer : SUBSET Holders]]
    status_count,       \* [Statuses -> Nat], the store's aggregate counts
    watch,              \* [value, closed], the Empty-count channel
    sentry,             \* [queue_len, stopped], the gateway
    sentry_lock,        \* [readers, writer : SUBSET Holders]
    now,                \* the last reading of time::Instant::now()
    last_request_id,    \* FetchRequestStage.last_request_id
    watch_unseen,       \* pending_watch holds a value the stage has not seen
    pc,                 \* where execute() stands
    cur,                \* slice the visitor holds, 0 when none
    visited,            \* slices the running scan has visited
    request_id,         \* the visitor's local request_id
    result,             \* what the last execute() returned
    calls,              \* calls of execute() so far
    ext_cur,            \* slice the external stage holds, 0 when none
    ext_seen,           \* status the external stage read under its lock
    ext_steps,          \* status changes the other stages have made
    attempts,           \* history: every message handed to the gateway
    start_empty,        \* history: slices Empty when the running scan began
    entered_zero,       \* history: pending_count() was 0 at line 48
    call_done,          \* history: slices this call turned Waiting
    transitions,        \* history: Empty -> Waiting transitions the stage made
    call_stop,          \* history: how this call's scan ended
    capacity_resolved,  \* history: this call's capacity future resolved
    ext_touched,        \* history: an external change since the scan began
    accepted_in_period, \* history: accepted requests per Empty period
    call_base,          \* history: Len(attempts) when this call began
    ext_raised,         \* history: another stage raised the Empty count from 0
                        \*          during this call
    round_shape,        \* history: the shape of the state the round began in
    round_starved,      \* history: slices Empty all through the round
    round_fair,         \* history: what the round has given a turn to
    recording           \* the run's history and counters are kept

storeVars == <<slices, lock, status_count, watch>>
gatewayVars == <<sentry, sentry_lock>>
issuerVars == <<last_request_id, watch_unseen, pc, cur, visited, request_id,
                result, calls>>
extVars == <<ext_cur, ext_seen, ext_steps>>
histVars == <<attempts, start_empty, entered_zero, call_done, transitions,
              call_stop, capacity_resolved, ext_touched, accepted_in_period,
              call_base, ext_raised>>
roundVars == <<round_shape, round_starved, round_fair>>
vars == <<storeVars, gatewayVars, now, issuerVars, extVars, histVars,
          roundVars, recording>>

\* ------------------------------------------------------------ helpers
NoHolder == [upgradable |-> {}, writer |-> {}]

\* parking_lot RwLock: an upgradable read is granted when no writer and no
\* other upgradable reader holds the lock.
CanLockUpgradable(l) == l.upgradable = {} /\ l.writer = {}

\* HeaderSlices::count_slices_in_status
CountSlicesInStatus(st) == status_count[st]

\* FetchRequestStage::pending_count
PendingCount == CountSlicesInStatus("Empty")

\* HeaderSlices::set_slice_status: the aggregate counts follow the status.
CountsAfterSet(counts, old, new) ==
    IF old = new THEN counts
    ELSE [counts EXCEPT ![old] = counts[old] - 1, ![new] = counts[new] + 1]

\* The store publishes the Empty count to its subscribers whenever a status
\* changes, until the channel is closed.
WatchAfterSet(w, counts) ==
    IF w.closed THEN w ELSE [w EXCEPT !.value = counts["Empty"]]

\* A published value is one the receiver has not seen yet.
UnseenAfterSet(w, unseen) == IF w.closed THEN unseen ELSE TRUE

\* FetchRequestStage::request builds the message.
Request(id, block_num, limit) ==
    [request_id |-> id,
     start_block |-> block_num,
     limit |-> limit,
     skip |-> 0,
     reverse |-> 0,
     peer_filter |-> <<"Random", 1>>]

\* SentryClientReactor::try_send_message: what the gateway can answer.
TrySendOutcomes(s) ==
    IF s.stopped THEN {"ReactorStopped"}
    ELSE IF s.queue_len >= QueueCap THEN {"SendQueueFull"}
    ELSE {"Ok", "Other"}

\* HeaderSlices::for_each visits the slices in list order.
NextSlice == CHOOSE i \in SliceIds \ visited : \A j \in SliceIds \ visited : i <= j

AfterVisit(i) == IF visited \cup {i} = SliceIds THEN "after_scan" ELSE "scan"

\* for_each ran to the end of the list: the scan's result is Ok(()).
StopAfterVisit(i) == IF visited \cup {i} = SliceIds THEN "complete" ELSE call_stop

Attempt(msg, i, outcome) == [message |-> msg, slice |-> i, outcome |-> outcome]

\* The history of a run and the counters of what it has done so far (its
\* calls, its transitions) are kept while `recording`.  The progress
\* specification follows runs with any number of calls and keeps no history
\* of them; the stage, the store, the gateway and the clock are the same in
\* both.
Counted(n) == IF recording THEN n + 1 ELSE n

Kept(h, new) == IF recording THEN new ELSE h

Recorded(h, e) == IF recording THEN Append(h, e) ELSE h

\* for_each has returned after its visit of slice i: the iterator is gone, and
\* the slices it visited stay on record where the run is recorded.
ScanEnded(i) == IF recording THEN visited \cup {i} ELSE {}

\* The slices visited once slice i has been.
VisitedAfter(i) ==
    IF AfterVisit(i) = "after_scan" THEN ScanEnded(i) ELSE visited \cup {i}

\* AtomicU64::fetch_add(1): the counter's next value; the addition wraps
\* around at u64::MAX.
FetchAdd(n) == WrappingInc(n)

\* --------------------------------------------------------------- Init
\* The stage is constructed over a store whose slices other stages may have
\* worked on already; counts and the channel's value agree with the statuses.
NewSlice(i, st) ==
    [start_block_num |-> 100 * i, status |-> st,
     request_time |-> IF st = "Empty" THEN NoTime ELSE 0]

CountOf(sl, st) == Cardinality({i \in SliceIds : sl[i].status = st})

Constructed ==
    /\ \E f \in [SliceIds -> {"Empty", "Waiting"}] :
          slices = [i \in SliceIds |-> NewSlice(i, f[i])]
    /\ lock = [i \in SliceIds |-> NoHolder]
    /\ status_count = [st \in Statuses |-> CountOf(slices, st)]
    /\ watch = [value |-> CountOf(slices, "Empty"), closed |-> FALSE]
    /\ sentry = [queue_len |-> 0, stopped |-> FALSE]
    /\ sentry_lock = [readers |-> {}, writer |-> {}]
    /\ now = 0
    /\ last_request_id = U64(0)
    /\ watch_unseen = FALSE
    /\ pc = "idle"
    /\ cur = 0
    /\ visited = {}
    /\ request_id = U64(0)
    /\ result = "none"
    /\ calls = 0
    /\ ext_cur = 0
    /\ ext_seen = "Empty"
    /\ ext_steps = 0
    /\ attempts = <<>>
    /\ start_empty = {}
    /\ entered_zero = FALSE
    /\ call_done = {}
    /\ transitions = 0
    /\ call_stop = "none"
    /\ capacity_resolved = FALSE
    /\ ext_touched = FALSE
    /\ accepted_in_period = [i \in SliceIds |-> 0]
    /\ call_base = 0
    /\ ext_raised = FALSE
    /\ round_shape = <<>>
    /\ round_starved = {}
    /\ round_fair = {}

Init ==
    /\ Constructed
    /\ recording = TRUE

\* -------------------------------------------------------------- rounds
\* The progress specification keeps a record of one round of the pipeline:
\* the state the round began in, the slices that have been Empty ever since,
\* and who has had a turn.

\* The state, but for what a round moves on: the id counter, the clock's
\* last reading and the instants in request_time (of which it keeps whether
\* they are set), which no step of execute() or of its environment tests,
\* and the count of the other stages' changes, which the pipeline does not
\* keep (it bounds the specification).
Shape ==
    <<[i \in SliceIds |-> <<slices[i].start_block_num, slices[i].status,
                            slices[i].request_time # NoTime>>],
      lock, status_count, watch, gatewayVars, watch_unseen, pc, cur, visited,
      request_id, result, ext_cur, ext_seen>>

\* Where a round begins: execute() has returned Ok, the last slice is Empty
\* and every other Waiting, the queue has room for one message, no other
\* stage is at work and the reactor runs.
RoundStart ==
    /\ pc = "idle"
    /\ result = "ok"
    /\ ext_cur = 0
    /\ watch_unseen
    /\ ~sentry.stopped
    /\ sentry.queue_len = QueueCap - 1
    /\ \A i \in SliceIds :
         slices[i].status = IF i = NumSlices THEN "Empty" ELSE "Waiting"

\* What the conditions of progress (Fairness) ask a turn for.
FairTurns == {"IssuerRun", "IssuerLock", "ExtRelease", "GatewayDrain"}

\* The step, which gives `turn` its turn, as the round sees it: the round
\* begins when RoundStart comes to hold; from then on the slices that have
\* been Empty ever since and the turns given are kept; the round is over when
\* none of its slices is Empty any more.
Round(turn) ==
    IF recording THEN UNCHANGED roundVars
    ELSE IF round_shape = <<>>
    THEN IF RoundStart'
         THEN /\ round_shape' = <<Shape'>>
              /\ round_starved' = {i \in SliceIds : slices'[i].status = "Empty"}
              /\ round_fair' = {}
         ELSE UNCHANGED roundVars
    ELSE IF \A i \in round_starved : slices'[i].status # "Empty"
    THEN /\ round_shape' = <<>>
         /\ round_starved' = {}
         /\ round_fair' = {}
    ELSE /\ round_shape' = round_shape
         /\ round_starved' =
              {i \in round_starved : slices'[i].status = "Empty"}
         /\ round_fair' = round_fair \cup ({turn} \cap FairTurns)

\* ------------------------------------------------------- execute()
\* The scan begins: request_pending calls for_each.
BeginScan ==
    /\ visited' = {}
    /\ start_empty' = Kept(start_empty,
                           {i \in SliceIds : slices[i].status = "Empty"})
    /\ ext_touched' = Kept(ext_touched, FALSE)

\* Faulty variant: every call waits for a change of the Empty count, also
\* when slices are Empty already.
ExecuteStart_WaitAlways ==
    /\ pc = "idle"
    /\ recording => calls < MaxCalls
    /\ calls' = Counted(calls)
    /\ call_base' = Kept(call_base, Len(attempts))
    /\ ext_raised' = Kept(ext_raised, FALSE)
    /\ entered_zero' = Kept(entered_zero, (PendingCount = 0))
    /\ call_done' = Kept(call_done, {})
    /\ call_stop' = Kept(call_stop, "none")
    /\ capacity_resolved' = Kept(capacity_resolved, FALSE)
    /\ result' = "none"
    /\ pc' = "watch_wait"
    /\ UNCHANGED <<visited, start_empty, ext_touched>>
    /\ UNCHANGED <<recording, storeVars, gatewayVars, now,
                   last_request_id, watch_unseen, cur, request_id, extVars,
                   attempts, accepted_in_period, transitions>>
    /\ Round("IssuerRun")

\* execute(), line 48: the driver invokes the stage; it reads pending_count().
ExecuteStart ==
    /\ pc = "idle"
    /\ recording => calls < MaxCalls
    /\ calls' = Counted(calls)
    /\ call_base' = Kept(call_base, Len(attempts))
    /\ ext_raised' = Kept(ext_raised, FALSE)
    /\ entered_zero' = Kept(entered_zero, (PendingCount = 0))
    /\ call_done' = Kept(call_done, {})
    /\ call_stop' = Kept(call_stop, "none")
    /\ capacity_resolved' = Kept(capacity_resolved, FALSE)
    /\ result' = "none"
    /\ IF PendingCount = 0
       THEN /\ pc' = "watch_check"
            /\ UNCHANGED <<visited, start_empty, ext_touched>>
       ELSE /\ pc' = "scan"
            /\ BeginScan
    /\ UNCHANGED <<recording, storeVars, gatewayVars, now,
                   last_request_id, watch_unseen, cur, request_id, extVars,
                   attempts, accepted_in_period, transitions>>
    /\ Round("IssuerRun")

\* line 50: borrow_and_update reads the channel's value and marks it seen.
WatchCheck ==
    /\ pc = "watch_check"
    /\ watch_unseen' = FALSE
    /\ IF watch.value = 0
       THEN /\ pc' = "watch_wait"
            /\ UNCHANGED <<visited, start_empty, ext_touched>>
       ELSE /\ pc' = "scan"
            /\ BeginScan
    /\ UNCHANGED <<recording, storeVars, gatewayVars, now,
                   last_request_id, cur, request_id, result, extVars,
                   attempts, entered_zero, call_done, transitions, call_stop,
                   capacity_resolved, accepted_in_period, calls, call_base,
                   ext_raised>>
    /\ Round("IssuerRun")

\* Faulty variant: a wake-up is trusted and the count is not read again.
WatchChangedOk_NoRecheck ==
    /\ pc = "watch_wait"
    /\ watch_unseen
    /\ watch_unseen' = FALSE
    /\ pc' = "scan"
    /\ BeginScan
    /\ UNCHANGED <<recording, storeVars, gatewayVars, now,
                   last_request_id, cur, request_id, result, extVars,
                   attempts, entered_zero, call_done, transitions, call_stop,
                   capacity_resolved, accepted_in_period, call_base,
                   ext_raised, calls>>
    /\ Round("IssuerRun")

\* line 51: changed() resolves when a value it has not seen was published.
WatchChangedOk ==
    /\ pc = "watch_wait"
    /\ watch_unseen
    /\ watch_unseen' = FALSE
    /\ pc' = "watch_check"
    /\ UNCHANGED <<recording, storeVars, gatewayVars, now, last_request_id,
                   cur, visited, request_id, result, extVars, histVars,
                   calls>>
    /\ Round("IssuerRun")

\* Faulty variant: the channel's error is swallowed and the count is read again.
WatchChangedErr_Retry ==
    /\ pc = "watch_wait"
    /\ ~watch_unseen
    /\ watch.closed
    /\ pc' = "watch_check"
    /\ result' = result
    /\ call_stop' = call_stop
    /\ UNCHANGED <<recording, storeVars, gatewayVars, now,
                   last_request_id, watch_unseen, cur, visited, request_id,
                   extVars, calls, attempts, start_empty, entered_zero,
                   call_done, transitions, capacity_resolved, ext_touched,
                   accepted_in_period, call_base, ext_raised>>
    /\ Round("none")

\* line 51: changed() fails when the sender is gone; `?` returns the error.
WatchChangedErr ==
    /\ pc = "watch_wait"
    /\ ~watch_unseen
    /\ watch.closed
    /\ pc' = "idle"
    /\ result' = "err"
    /\ call_stop' = Kept(call_stop, "closed")
    /\ UNCHANGED <<recording, storeVars, gatewayVars, now,
                   last_request_id, watch_unseen, cur, visited, request_id,
                   extVars, calls, attempts, start_empty, entered_zero,
                   call_done, transitions, capacity_resolved, ext_touched,
                   accepted_in_period, call_base, ext_raised>>
    /\ Round("none")

\* lines 78-79: the visitor takes the upgradable read lock and finds the
\* slice not Empty; the guard is dropped at the end of the closure.
VisitSkip(i) ==
    /\ pc = "scan"
    /\ i = NextSlice
    /\ CanLockUpgradable(lock[i])
    /\ slices[i].status # "Empty"
    /\ visited' = VisitedAfter(i)
    /\ pc' = AfterVisit(i)
    /\ call_stop' = Kept(call_stop, StopAfterVisit(i))
    /\ UNCHANGED <<recording, storeVars, gatewayVars, now,
                   last_request_id, watch_unseen, cur, request_id, result,
                   extVars, attempts, start_empty, entered_zero, call_done,
                   transitions, capacity_resolved, ext_touched,
                   accepted_in_period, calls, call_base, ext_raised>>
    /\ Round("IssuerLock")

\* Faulty variant: the visitor reads the status without keeping the slice locked
\* (a plain read guard dropped after the check).
VisitEmpty_NoLock(i) ==
    /\ pc = "scan"
    /\ i = NextSlice
    /\ CanLockUpgradable(lock[i])
    /\ slices[i].status = "Empty"
    /\ lock' = lock
    /\ cur' = i
    /\ request_id' = last_request_id
    /\ last_request_id' = FetchAdd(last_request_id)
    /\ pc' = "send"
    /\ UNCHANGED <<recording, slices, status_count, watch, gatewayVars, now,
                   watch_unseen, visited, result, extVars, histVars, calls>>
    /\ Round("IssuerLock")

\* Faulty variant: the visitor requests a slice whatever its status.
VisitEmpty_AnyStatus(i) ==
    /\ pc = "scan"
    /\ i = NextSlice
    /\ CanLockUpgradable(lock[i])
    /\ lock' = [lock EXCEPT ![i].upgradable = @ \cup {"issuer"}]
    /\ cur' = i
    /\ request_id' = last_request_id
    /\ last_request_id' = FetchAdd(last_request_id)
    /\ pc' = "send"
    /\ UNCHANGED <<recording, slices, status_count, watch, gatewayVars, now,
                   watch_unseen, visited, result, extVars, histVars, calls>>
    /\ Round("IssuerLock")

\* Faulty variant: the request id is loaded and the counter is not advanced.
VisitEmpty_NoIncrement(i) ==
    /\ pc = "scan"
    /\ i = NextSlice
    /\ CanLockUpgradable(lock[i])
    /\ slices[i].status = "Empty"
    /\ lock' = [lock EXCEPT ![i].upgradable = @ \cup {"issuer"}]
    /\ cur' = i
    /\ request_id' = last_request_id
    /\ last_request_id' = last_request_id
    /\ pc' = "send"
    /\ UNCHANGED <<recording, slices, status_count, watch, gatewayVars, now,
                   watch_unseen, visited, result, extVars, histVars, calls>>
    /\ Round("IssuerLock")

\* lines 78-80: the visitor takes the upgradable read lock, finds the slice
\* Empty and draws the next request id (fetch_add returns the old value).
VisitEmpty(i) ==
    /\ pc = "scan"
    /\ i = NextSlice
    /\ CanLockUpgradable(lock[i])
    /\ slices[i].status = "Empty"
    /\ lock' = [lock EXCEPT ![i].upgradable = @ \cup {"issuer"}]
    /\ cur' = i
    /\ request_id' = last_request_id
    /\ last_request_id' = FetchAdd(last_request_id)
    /\ pc' = "send"
    /\ UNCHANGED <<recording, slices, status_count, watch, gatewayVars, now,
                   watch_unseen, visited, result, extVars, histVars, calls>>
    /\ Round("IssuerLock")

\* Faulty variant: the limit is the slice size, without the one header more.
CurMessage_NoExtraHeader ==
    Request(request_id, slices[cur].start_block_num, HEADER_SLICE_SIZE)

\* lines 82-85: the message of the slice the visitor holds.
CurMessage ==
    Request(request_id, slices[cur].start_block_num, HEADER_SLICE_SIZE + 1)

\* parking_lot RwLock::read() on the gateway (lines 66 and 117-118) is granted
\* when no writer holds the lock.
CanReadSentry == sentry_lock.writer = {}

\* lines 85, 95: the gateway accepted the message.
SendOk ==
    /\ pc = "send"
    /\ CanReadSentry
    /\ "Ok" \in TrySendOutcomes(sentry)
    /\ sentry' = [sentry EXCEPT !.queue_len = @ + 1]
    /\ attempts' = Recorded(attempts, Attempt(CurMessage, cur, "Ok"))
    /\ accepted_in_period' =
         Kept(accepted_in_period, [accepted_in_period EXCEPT ![cur] = @ + 1])
    /\ pc' = "upgrade"
    /\ UNCHANGED <<recording, storeVars, sentry_lock, now,
                   last_request_id, watch_unseen, cur, visited, request_id,
                   result, extVars, start_empty, entered_zero, call_done,
                   transitions, call_stop, capacity_resolved, ext_touched,
                   calls, call_base, ext_raised>>
    /\ Round("IssuerLock")

\* Faulty variant: a full queue does not stop the scan (the visitor returns None).
SendQueueFull_Continue ==
    /\ pc = "send"
    /\ CanReadSentry
    /\ "SendQueueFull" \in TrySendOutcomes(sentry)
    /\ attempts' = Recorded(attempts, Attempt(CurMessage, cur, "SendQueueFull"))
    /\ lock' = [lock EXCEPT ![cur].upgradable = @ \ {"issuer"}]
    /\ visited' = VisitedAfter(cur)
    /\ cur' = 0
    /\ request_id' = U64(0)
    /\ call_stop' = Kept(call_stop, StopAfterVisit(cur))
    /\ pc' = AfterVisit(cur)
    /\ UNCHANGED <<recording, slices, status_count, watch, gatewayVars, now,
                   last_request_id, watch_unseen, result, extVars,
                   start_empty, entered_zero, call_done, transitions,
                   capacity_resolved, ext_touched, accepted_in_period, calls,
                   call_base, ext_raised>>
    /\ Round("IssuerLock")

\* Faulty variant: the id drawn for a refused message is given back to the
\* counter.
SendQueueFull_ReuseId ==
    /\ pc = "send"
    /\ CanReadSentry
    /\ "SendQueueFull" \in TrySendOutcomes(sentry)
    /\ attempts' = Recorded(attempts, Attempt(CurMessage, cur, "SendQueueFull"))
    /\ lock' = [lock EXCEPT ![cur].upgradable = @ \ {"issuer"}]
    /\ visited' = ScanEnded(cur)
    /\ cur' = 0
    /\ request_id' = U64(0)
    /\ last_request_id' = request_id
    /\ call_stop' = Kept(call_stop, "full")
    /\ pc' = "after_scan"
    /\ UNCHANGED <<recording, slices, status_count, watch, gatewayVars, now,
                   watch_unseen, result, extVars, start_empty, entered_zero,
                   call_done, transitions, capacity_resolved, ext_touched,
                   accepted_in_period, calls, call_base, ext_raised>>
    /\ Round("IssuerLock")

\* Faulty variant: QueueFull is taken for success and the slice is transitioned.
SendQueueFull_Transition ==
    /\ pc = "send"
    /\ CanReadSentry
    /\ "SendQueueFull" \in TrySendOutcomes(sentry)
    /\ attempts' = Recorded(attempts, Attempt(CurMessage, cur, "SendQueueFull"))
    /\ lock' = lock
    /\ visited' = visited
    /\ cur' = cur
    /\ request_id' = request_id
    /\ call_stop' = call_stop
    /\ pc' = "upgrade"
    /\ UNCHANGED <<recording, slices, status_count, watch, gatewayVars, now,
                   last_request_id, watch_unseen, result, extVars,
                   start_empty, entered_zero, call_done, transitions,
                   capacity_resolved, ext_touched, accepted_in_period, calls,
                   call_base, ext_raised>>
    /\ Round("IssuerLock")

\* lines 88-91: the queue is full; the visitor stops the scan with Ok.
SendQueueFull ==
    /\ pc = "send"
    /\ CanReadSentry
    /\ "SendQueueFull" \in TrySendOutcomes(sentry)
    /\ attempts' = Recorded(attempts, Attempt(CurMessage, cur, "SendQueueFull"))
    /\ lock' = [lock EXCEPT ![cur].upgradable = @ \ {"issuer"}]
    /\ visited' = ScanEnded(cur)
    /\ cur' = 0
    /\ request_id' = U64(0)
    /\ call_stop' = Kept(call_stop, "full")
    /\ pc' = "after_scan"
    /\ UNCHANGED <<recording, slices, status_count, watch, gatewayVars, now,
                   last_request_id, watch_unseen, result, extVars,
                   start_empty, entered_zero, call_done, transitions,
                   capacity_resolved, ext_touched, accepted_in_period, calls,
                   call_base, ext_raised>>
    /\ Round("IssuerLock")

\* Faulty variant: a fatal send failure is dropped and the scan goes on.
SendFatal_Continue(outcome) ==
    /\ pc = "send"
    /\ CanReadSentry
    /\ outcome \in TrySendOutcomes(sentry) \ {"Ok", "SendQueueFull"}
    /\ attempts' = Recorded(attempts, Attempt(CurMessage, cur, outcome))
    /\ lock' = [lock EXCEPT ![cur].upgradable = @ \ {"issuer"}]
    /\ visited' = VisitedAfter(cur)
    /\ cur' = 0
    /\ request_id' = U64(0)
    /\ call_stop' = Kept(call_stop, StopAfterVisit(cur))
    /\ pc' = AfterVisit(cur)
    /\ result' = result
    /\ UNCHANGED <<recording, slices, status_count, watch,
                   gatewayVars, now, last_request_id, watch_unseen, extVars,
                   start_empty, entered_zero, call_done, transitions,
                   capacity_resolved, ext_touched, accepted_in_period, calls,
                   call_base, ext_raised>>
    /\ Round("none")

\* lines 92-93 and 60: any other failure stops the scan with the error, and
\* `?` returns it from execute().
SendFatal(outcome) ==
    /\ pc = "send"
    /\ CanReadSentry
    /\ outcome \in TrySendOutcomes(sentry) \ {"Ok", "SendQueueFull"}
    /\ attempts' = Recorded(attempts, Attempt(CurMessage, cur, outcome))
    /\ lock' = [lock EXCEPT ![cur].upgradable = @ \ {"issuer"}]
    /\ visited' = ScanEnded(cur)
    /\ cur' = 0
    /\ request_id' = U64(0)
    /\ call_stop' = Kept(call_stop, "fatal")
    /\ pc' = "idle"
    /\ result' = "err"
    /\ UNCHANGED <<recording, slices, status_count, watch,
                   gatewayVars, now, last_request_id, watch_unseen, extVars,
                   start_empty, entered_zero, call_done, transitions,
                   capacity_resolved, ext_touched, accepted_in_period, calls,
                   call_base, ext_raised>>
    /\ Round("none")

\* time::Instant::now(): the clock is monotonic and is read only here, so a
\* reading is modelled as the instant after the last one read.
InstantNow == now + 1

\* Faulty variant: the lock is upgraded and request_time is not set.
Upgrade_NoTime ==
    /\ pc = "upgrade"
    /\ now' = InstantNow
    /\ lock' = [lock EXCEPT ![cur].upgradable = @ \ {"issuer"},
                            ![cur].writer = @ \cup {"issuer"}]
    /\ slices' = slices
    /\ pc' = "set_status"
    /\ UNCHANGED <<recording, status_count, watch, gatewayVars,
                   last_request_id, watch_unseen, cur, visited, request_id,
                   result, extVars, histVars, calls>>
    /\ Round("IssuerRun")

\* Faulty variant: request_time is written without the upgrade to a write lock.
Upgrade_NoWriteLock ==
    /\ pc = "upgrade"
    /\ now' = InstantNow
    /\ lock' = lock
    /\ slices' = [slices EXCEPT ![cur].request_time = InstantNow]
    /\ pc' = "set_status"
    /\ UNCHANGED <<recording, status_count, watch, gatewayVars,
                   last_request_id, watch_unseen, cur, visited, request_id,
                   result, extVars, histVars, calls>>
    /\ Round("IssuerRun")

\* lines 96-97: the held lock is upgraded to a write lock and request_time
\* is set.
Upgrade ==
    /\ pc = "upgrade"
    /\ now' = InstantNow
    /\ lock' = [lock EXCEPT ![cur].upgradable = @ \ {"issuer"},
                            ![cur].writer = @ \cup {"issuer"}]
    /\ slices' = [slices EXCEPT ![cur].request_time = InstantNow]
    /\ pc' = "set_status"
    /\ UNCHANGED <<recording, status_count, watch, gatewayVars,
                   last_request_id, watch_unseen, cur, visited, request_id,
                   result, extVars, histVars, calls>>
    /\ Round("IssuerRun")

\* Faulty variant: the status field is assigned directly, past set_slice_status.
SetStatus_DirectWrite ==
    /\ pc = "set_status"
    /\ slices' = [slices EXCEPT ![cur].status = "Waiting"]
    /\ status_count' = status_count
    /\ watch' = watch
    /\ watch_unseen' = watch_unseen
    /\ lock' = [lock EXCEPT ![cur].writer = @ \ {"issuer"}]
    /\ call_done' = Kept(call_done, call_done \cup {cur})
    /\ transitions' = Counted(transitions)
    /\ visited' = VisitedAfter(cur)
    /\ cur' = 0
    /\ request_id' = U64(0)
    /\ pc' = AfterVisit(cur)
    /\ call_stop' = Kept(call_stop, StopAfterVisit(cur))
    /\ UNCHANGED <<recording, gatewayVars, now, last_request_id, result,
                   extVars, attempts, start_empty, entered_zero,
                   capacity_resolved, ext_touched, accepted_in_period, calls,
                   call_base, ext_raised>>
    /\ Round("IssuerRun")

\* lines 98-100: set_slice_status(slice, Waiting); the write guard is dropped
\* at the end of the match arm and the scan goes on.
SetStatus ==
    /\ pc = "set_status"
    /\ slices' = [slices EXCEPT ![cur].status = "Waiting"]
    /\ status_count' = CountsAfterSet(status_count, slices[cur].status, "Waiting")
    /\ watch' = WatchAfterSet(watch, status_count')
    /\ watch_unseen' = UnseenAfterSet(watch, watch_unseen)
    /\ lock' = [lock EXCEPT ![cur].writer = @ \ {"issuer"}]
    /\ call_done' = Kept(call_done, call_done \cup {cur})
    /\ transitions' = Counted(transitions)
    /\ visited' = VisitedAfter(cur)
    /\ cur' = 0
    /\ request_id' = U64(0)
    /\ pc' = AfterVisit(cur)
    /\ call_stop' = Kept(call_stop, StopAfterVisit(cur))
    /\ UNCHANGED <<recording, gatewayVars, now, last_request_id, result,
                   extVars, attempts, start_empty, entered_zero,
                   capacity_resolved, ext_touched, accepted_in_period, calls,
                   call_base, ext_raised>>
    /\ Round("IssuerRun")

\* lines 63, 72-73: nothing is pending after the scan; execute() returns Ok.
ReturnOk ==
    /\ pc = "after_scan"
    /\ PendingCount = 0
    /\ pc' = "idle"
    /\ result' = "ok"
    /\ UNCHANGED <<recording, storeVars, gatewayVars, now, last_request_id,
                   watch_unseen, cur, visited, request_id, extVars, histVars,
                   calls>>
    /\ Round("IssuerRun")

\* line 63: slices are still pending after the scan; execute() goes on to
\* lock the gateway and does not read the count again.
PendingAfterScan ==
    /\ pc = "after_scan"
    /\ PendingCount > 0
    /\ pc' = "lock_sentry"
    /\ UNCHANGED <<recording, storeVars, gatewayVars, now, last_request_id,
                   watch_unseen, cur, visited, request_id, result, extVars,
                   histVars, calls>>
    /\ Round("IssuerRun")

\* lines 65-67: sentry.read() is granted, behind a writer if there is one, and
\* the capacity future is obtained under the read guard.
ReserveCapacity ==
    /\ pc = "lock_sentry"
    /\ CanReadSentry
    /\ sentry_lock' = [sentry_lock EXCEPT !.readers = @ \cup {"issuer"}]
    /\ pc' = "reserve"
    /\ UNCHANGED <<recording, storeVars, sentry, now, last_request_id,
                   watch_unseen, cur, visited, request_id, result, extVars,
                   histVars, calls>>
    /\ Round("IssuerLock")

\* Faulty variant: the gateway's read guard lives until the future has been
\* awaited.
ReleaseSentry_KeepGuard ==
    /\ pc = "reserve"
    /\ sentry_lock' = sentry_lock
    /\ pc' = "await_capacity"
    /\ UNCHANGED <<recording, storeVars, sentry, now, last_request_id,
                   watch_unseen, cur, visited, request_id, result, extVars,
                   histVars, calls>>
    /\ Round("IssuerRun")

\* line 68: the gateway's read guard is dropped before the future is awaited.
ReleaseSentry ==
    /\ pc = "reserve"
    /\ sentry_lock' = [sentry_lock EXCEPT !.readers = @ \ {"issuer"}]
    /\ pc' = "await_capacity"
    /\ UNCHANGED <<recording, storeVars, sentry, now, last_request_id,
                   watch_unseen, cur, visited, request_id, result, extVars,
                   histVars, calls>>
    /\ Round("IssuerRun")

\* SentryClientReactor::reserve_capacity_in_send_queue: the future resolves
\* Ok when the queue has room and with an error when the reactor stopped.
CapacityOutcomes(s) ==
    IF s.stopped THEN {"Err"}
    ELSE IF s.queue_len < QueueCap THEN {"Ok"}
    ELSE {}

\* Faulty variant: with capacity back the call scans the slices again.
CapacityOk_Rescan ==
    /\ pc = "await_capacity"
    /\ "Ok" \in CapacityOutcomes(sentry)
    /\ capacity_resolved' = Kept(capacity_resolved, TRUE)
    /\ pc' = "scan"
    /\ result' = result
    /\ BeginScan
    /\ UNCHANGED <<recording, storeVars, gatewayVars, now,
                   last_request_id, watch_unseen, cur, request_id, extVars,
                   attempts, entered_zero, call_done, transitions, call_stop,
                   accepted_in_period, calls, call_base, ext_raised>>
    /\ Round("IssuerRun")

\* lines 69, 72-73: the capacity future resolved Ok; execute() returns Ok.
CapacityOk ==
    /\ pc = "await_capacity"
    /\ "Ok" \in CapacityOutcomes(sentry)
    /\ capacity_resolved' = Kept(capacity_resolved, TRUE)
    /\ pc' = "idle"
    /\ result' = "ok"
    /\ UNCHANGED <<recording, storeVars, gatewayVars, now,
                   last_request_id, watch_unseen, cur, visited, request_id,
                   extVars, attempts, start_empty, entered_zero, call_done,
                   transitions, call_stop, ext_touched, accepted_in_period,
                   calls, call_base, ext_raised>>
    /\ Round("IssuerRun")

\* Faulty variant: on the future's error the call undoes its transitions.
CapacityErr_Rollback ==
    /\ pc = "await_capacity"
    /\ "Err" \in CapacityOutcomes(sentry)
    /\ capacity_resolved' = Kept(capacity_resolved, TRUE)
    /\ pc' = "idle"
    /\ result' = "err"
    /\ slices' = [i \in SliceIds |->
                    IF i \in call_done
                    THEN [slices[i] EXCEPT !.status = "Empty",
                                           !.request_time = NoTime]
                    ELSE slices[i]]
    /\ status_count' = [st \in Statuses |-> CountOf(slices', st)]
    /\ watch' = WatchAfterSet(watch, status_count')
    /\ watch_unseen' = UnseenAfterSet(watch, watch_unseen)
    /\ UNCHANGED <<recording, lock, gatewayVars, now,
                   last_request_id, cur, visited, request_id, extVars,
                   attempts, start_empty, entered_zero, call_done,
                   transitions, call_stop, ext_touched, accepted_in_period,
                   calls, call_base, ext_raised>>
    /\ Round("none")

\* line 69: the capacity future resolved with an error; `?` returns it.
CapacityErr ==
    /\ pc = "await_capacity"
    /\ "Err" \in CapacityOutcomes(sentry)
    /\ capacity_resolved' = Kept(capacity_resolved, TRUE)
    /\ pc' = "idle"
    /\ result' = "err"
    /\ UNCHANGED <<recording, storeVars, gatewayVars, now,
                   last_request_id, watch_unseen, cur, visited, request_id,
                   extVars, attempts, start_empty, entered_zero, call_done,
                   transitions, call_stop, ext_touched, accepted_in_period,
                   calls, call_base, ext_raised>>
    /\ Round("none")

\* ------------------------------------------------- the other stages
\* The model follows the pipeline until the driver's last call has returned.
Running == ~(calls = MaxCalls /\ pc = "idle")

\* The stage observes the gateway only in try_send_message and in the
\* capacity future, and the closing of the channel only in changed(): a
\* change of the gateway or of the channel at any earlier moment shows the
\* stage the same as that change right before the observation, which is
\* where the model lets it happen.  The sender of the channel goes away
\* with everything it has published seen, and publishes nothing afterwards.
ObservesGateway == pc \in {"send", "await_capacity"}
ObservesClosing == pc = "watch_wait" /\ ~watch_unseen

\* The stage meets the gateway's lock only where it calls sentry.read(): in
\* request() and before it obtains the capacity future.  A write lock taken
\* and dropped at any other moment shows the stage nothing.
ObservesSentryLock == pc \in {"send", "lock_sentry"}

\* Another stage takes the upgradable read lock of a slice and reads its
\* status.
ExtLock(i) ==
    /\ Running
    /\ ext_cur = 0
    /\ ext_steps < MaxExtSteps
    /\ CanLockUpgradable(lock[i])
    /\ lock' = [lock EXCEPT ![i].upgradable = @ \cup {"ext"}]
    /\ ext_cur' = i
    /\ ext_seen' = slices[i].status
    /\ UNCHANGED ext_steps
    /\ UNCHANGED <<recording, slices, status_count, watch, gatewayVars, now,
                   issuerVars, histVars>>
    /\ Round("none")

\* request_time as the other stages leave it: the clock's reading on a
\* transition to Waiting, cleared by a reset to Empty, kept otherwise.
ExtRequestTime(old, st) ==
    IF st = "Waiting" THEN now ELSE IF st = "Empty" THEN NoTime ELSE old

\* The other stage upgrades its lock, changes the status through
\* set_slice_status and drops the lock.
ExtSetStatus(st) ==
    /\ ext_cur # 0
    /\ st # ext_seen
    /\ slices' = [slices EXCEPT
                    ![ext_cur].status = st,
                    ![ext_cur].request_time = ExtRequestTime(@, st)]
    /\ status_count' = CountsAfterSet(status_count, slices[ext_cur].status, st)
    /\ watch' = WatchAfterSet(watch, status_count')
    /\ watch_unseen' = UnseenAfterSet(watch, watch_unseen)
    /\ lock' = [lock EXCEPT ![ext_cur].upgradable = @ \ {"ext"}]
    /\ ext_cur' = 0
    /\ ext_seen' = "Empty"
    /\ ext_steps' = ext_steps + 1
    /\ ext_touched' = Kept(ext_touched, TRUE)
    /\ ext_raised' =
         Kept(ext_raised,
              ext_raised \/ (pc # "idle" /\ PendingCount = 0 /\ st = "Empty"))
    /\ accepted_in_period' =
         Kept(accepted_in_period,
              IF st = "Empty" THEN [accepted_in_period EXCEPT ![ext_cur] = 0]
              ELSE accepted_in_period)
    /\ UNCHANGED <<recording, gatewayVars, now, last_request_id, pc, cur,
                   visited, request_id, result, attempts, start_empty,
                   entered_zero, call_done, transitions, call_stop,
                   capacity_resolved, calls, call_base>>
    /\ Round("ExtRelease")

\* The other stage drops its lock without a change.
ExtUnlock ==
    /\ ext_cur # 0
    /\ lock' = [lock EXCEPT ![ext_cur].upgradable = @ \ {"ext"}]
    /\ ext_cur' = 0
    /\ ext_seen' = "Empty"
    /\ UNCHANGED ext_steps
    /\ UNCHANGED <<recording, slices, status_count, watch, gatewayVars, now,
                   issuerVars, histVars>>
    /\ Round("ExtRelease")

\* The transport takes a message off the send queue.
GatewayDrain ==
    /\ ObservesGateway
    /\ sentry.queue_len > 0
    /\ sentry' = [sentry EXCEPT !.queue_len = @ - 1]
    /\ UNCHANGED <<recording, storeVars, sentry_lock, now, issuerVars,
                   extVars, histVars>>
    /\ Round("GatewayDrain")

\* The reactor stops for good.
GatewayStop ==
    /\ ObservesGateway
    /\ ~sentry.stopped
    /\ sentry' = [sentry EXCEPT !.stopped = TRUE]
    /\ UNCHANGED <<recording, storeVars, sentry_lock, now, issuerVars,
                   extVars, histVars>>
    /\ Round("none")

\* The owner of the gateway takes its write lock (sentry.write()).
SentryWriteLock ==
    /\ ObservesSentryLock
    /\ sentry_lock.writer = {}
    /\ sentry_lock.readers = {}
    /\ sentry_lock' = [sentry_lock EXCEPT !.writer = {"owner"}]
    /\ UNCHANGED <<recording, storeVars, sentry, now, issuerVars, extVars,
                   histVars>>
    /\ Round("none")

\* The owner drops the write lock.
SentryWriteUnlock ==
    /\ sentry_lock.writer = {"owner"}
    /\ sentry_lock' = [sentry_lock EXCEPT !.writer = {}]
    /\ UNCHANGED <<recording, storeVars, sentry, now, issuerVars, extVars,
                   histVars>>
    /\ Round("none")

\* The producing side of the Empty-count channel goes away.
WatchClose ==
    /\ ObservesClosing
    /\ ~watch.closed
    /\ watch' = [watch EXCEPT !.closed = TRUE]
    /\ UNCHANGED <<recording, slices, lock, status_count, gatewayVars, now,
                   issuerVars, extVars, histVars>>
    /\ Round("none")

Next ==
    \/ ExecuteStart
    \/ WatchCheck
    \/ WatchChangedOk
    \/ WatchChangedErr
    \/ \E i \in SliceIds : VisitSkip(i)
    \/ \E i \in SliceIds : VisitEmpty(i)
    \/ SendOk
    \/ SendQueueFull
    \/ \E o \in {"ReactorStopped", "Other"} : SendFatal(o)
    \/ Upgrade
    \/ SetStatus
    \/ ReturnOk
    \/ PendingAfterScan
    \/ ReserveCapacity
    \/ ReleaseSentry
    \/ CapacityOk
    \/ CapacityErr
    \/ \E i \in SliceIds : ExtLock(i)
    \/ \E st \in Statuses : ExtSetStatus(st)
    \/ ExtUnlock
    \/ GatewayDrain
    \/ GatewayStop
    \/ SentryWriteLock
    \/ SentryWriteUnlock
    \/ WatchClose

Spec == Init /\ [][Next]_vars

\* ------------------------------------------------------------ progress
\* The pipeline under the conditions of progress: the driver calls
\* execute() again and again, the reactor does not stop, no send fails
\* fatally, the channel stays open, the transport keeps taking messages off
\* the queue, and the other stages change slices up to MaxExtSteps times (and
\* lock and release them without end).
LiveInit ==
    /\ Constructed
    /\ recording = FALSE

LiveNext ==
    \/ ExecuteStart
    \/ WatchCheck
    \/ WatchChangedOk
    \/ \E i \in SliceIds : VisitSkip(i)
    \/ \E i \in SliceIds : VisitEmpty(i)
    \/ SendOk
    \/ SendQueueFull
    \/ Upgrade
    \/ SetStatus
    \/ ReturnOk
    \/ PendingAfterScan
    \/ ReserveCapacity
    \/ ReleaseSentry
    \/ CapacityOk
    \/ \E i \in SliceIds : ExtLock(i)
    \/ \E st \in Statuses : ExtSetStatus(st)
    \/ ExtUnlock
    \/ GatewayDrain
    \/ SentryWriteLock
    \/ SentryWriteUnlock

\* A step of execute() that waits for no lock: the task is scheduled and the
\* driver calls again after every return.
IssuerRun ==
    \/ ExecuteStart
    \/ WatchCheck
    \/ WatchChangedOk
    \/ Upgrade
    \/ SetStatus
    \/ ReturnOk
    \/ PendingAfterScan
    \/ ReleaseSentry
    \/ CapacityOk

\* The stage gets a lock it waits for, a slice's (upgradable_read()) or the
\* gateway's (read()): the lock is granted to a waiter that finds it free
\* again and again (parking_lot's locks are eventually fair).
IssuerLock ==
    \/ \E i \in SliceIds : VisitSkip(i) \/ VisitEmpty(i)
    \/ SendOk
    \/ SendQueueFull
    \/ ReserveCapacity

\* Another stage lets go of the slice it holds.
ExtRelease == ExtUnlock \/ \E st \in Statuses : ExtSetStatus(st)

Fairness ==
    /\ WF_vars(IssuerRun)
    /\ SF_vars(IssuerLock)
    /\ WF_vars(ExtRelease)
    /\ WF_vars(SentryWriteUnlock)
    /\ WF_vars(GatewayDrain)

LiveSpec == LiveInit /\ [][LiveNext]_vars /\ Fairness

\* ------------------------------------------------------------ claims
Returned == pc = "idle" /\ result # "none"

\* The attempts of the running (or last) call, in issuance order.
CallAttempts == SubSeq(attempts, call_base + 1, Len(attempts))

LockHolders(i) == lock[i].upgradable \cup lock[i].writer

\* C1: between the visitor's status check and its write of Waiting no other
\* holder has the slice: the slice lock has one upgrader or writer at a time,
\* the other stage never holds the slice the visitor holds, the slice stays
\* Empty from the check to the write, and a slice accepts at most one request
\* per Empty period.
C1_AtomicTransition ==
    /\ \A i \in SliceIds : Cardinality(LockHolders(i)) <= 1
    /\ cur # 0 => ext_cur # cur
    /\ pc \in {"send", "upgrade"} =>
         /\ slices[cur].status = "Empty"
         /\ slices[cur].request_time = NoTime
         /\ lock[cur].upgradable = {"issuer"}
    /\ pc = "set_status" =>
         /\ slices[cur].status = "Empty"
         /\ lock[cur].writer = {"issuer"}
    /\ \A i \in SliceIds : accepted_in_period[i] <= 1

\* C1 witness: the visitor is between its send and its write while the other
\* stage, having read Empty, holds another slice.
C1_Witness ==
    /\ pc = "upgrade"
    /\ ext_cur # 0
    /\ ext_cur # cur
    /\ ext_seen = "Empty"

\* A step of the stage itself: the other stages' status changes are counted.
NoExtStep == ext_steps' = ext_steps

\* C2: a step of execute() leaves every slice that is not Empty as it is,
\* sends only for a slice that is Empty, and changes a status only from
\* Empty to Waiting.
C2_OnlyEmptyToWaiting ==
    [][NoExtStep =>
         /\ \A i \in SliceIds :
              /\ slices[i].status # "Empty" => slices'[i] = slices[i]
              /\ slices'[i].status # slices[i].status =>
                   slices'[i].status = "Waiting"
         /\ attempts' # attempts =>
              slices[attempts'[Len(attempts')].slice].status = "Empty"]_vars

\* C2 witness: a finished scan visited a slice that was not Empty and sent
\* nothing for it, while it requested another one.
C2_Witness ==
    /\ pc = "after_scan"
    /\ ~ext_touched
    /\ call_done # {}
    /\ \E i \in visited :
         /\ i \notin start_empty
         /\ \A k \in 1 .. Len(CallAttempts) : CallAttempts[k].slice # i

\* C3: the request ids are strictly increasing in issuance order (every id is
\* greater than the id issued right before it, so than every earlier one),
\* and no id is issued twice.
C3_IdsIncrease ==
    /\ \A k \in 2 .. Len(attempts) :
         U64Less(attempts[k - 1].message.request_id,
                 attempts[k].message.request_id)
    /\ Cardinality({attempts[k].message.request_id : k \in 1 .. Len(attempts)})
         = Len(attempts)

\* C3 witness: ids were drawn in two calls of execute().
C3_Witness ==
    /\ calls = 2
    /\ call_base >= 2
    /\ Len(attempts) > call_base

\* The scan of this call ran (and was not cut off before it began).
Scanned == call_stop \in {"complete", "full", "fatal"}

AllAccepted ==
    \A k \in call_base + 1 .. Len(attempts) : attempts[k].outcome = "Ok"

\* Positions, in this call, of the attempts with an outcome in `outs`.
AttemptsWith(outs) ==
    {k \in 1 .. Len(attempts) - call_base :
        attempts[call_base + k].outcome \in outs}

First(S) == CHOOSE k \in S : \A j \in S : k <= j

StartEmptyIn(st) == {i \in start_empty : slices[i].status = st}

\* C4: a call whose sends were all accepted, with no other stage changing a
\* slice meanwhile, returns Ok with every slice that was Empty now Waiting,
\* its request_time set, one request sent for it, and the ids of the call
\* distinct and greater than every id issued before the call.
C4_Progress ==
    (Returned /\ Scanned /\ AllAccepted /\ ~ext_touched) =>
        /\ result = "ok"
        /\ call_done = start_empty
        /\ \A i \in SliceIds : slices[i].status # "Empty"
        /\ \A i \in start_empty :
             /\ slices[i].status = "Waiting"
             /\ slices[i].request_time # NoTime
             /\ Cardinality({k \in 1 .. Len(CallAttempts) :
                               CallAttempts[k].slice = i}) = 1
        /\ \A k \in 1 .. Len(CallAttempts) :
             /\ \A j \in 1 .. call_base :
                  U64Less(attempts[j].message.request_id,
                          CallAttempts[k].message.request_id)
             /\ \A j \in 1 .. Len(CallAttempts) :
                  j # k => CallAttempts[j].message.request_id
                               # CallAttempts[k].message.request_id

\* C4 witness: a second call found two or more Empty slices, had every send
\* accepted and returned Ok.
C4_Witness ==
    /\ Returned
    /\ result = "ok"
    /\ call_stop = "complete"
    /\ ~ext_touched
    /\ call_base > 0
    /\ Cardinality(start_empty) >= 2
    /\ call_done = start_empty

\* C5: with n slices Empty and the k-th send of the scan answered QueueFull
\* (the gateway not stopping, no other stage changing a slice), the call
\* returns Ok, after its capacity future resolved, with k-1 of the slices
\* Waiting and n-k+1 still Empty, and nothing was sent after the k-th attempt.
C5_Backpressure ==
    (Returned /\ AttemptsWith({"SendQueueFull"}) # {} /\ ~ext_touched
       /\ ~sentry.stopped) =>
        LET k == First(AttemptsWith({"SendQueueFull"}))
            n == Cardinality(start_empty)
        IN  /\ 1 <= k /\ k <= n
            /\ \A j \in 1 .. k - 1 : CallAttempts[j].outcome = "Ok"
            /\ Cardinality(StartEmptyIn("Waiting")) = k - 1
            /\ Cardinality(StartEmptyIn("Empty")) = n - k + 1
            /\ result = "ok"
            /\ capacity_resolved

\* C5 witness: three slices were Empty, the third send met a full queue, and
\* the call returned Ok after the capacity future resolved.
C5_Witness ==
    /\ Returned
    /\ result = "ok"
    /\ capacity_resolved
    /\ ~ext_touched
    /\ Cardinality(start_empty) = 3
    /\ Len(CallAttempts) = 3
    /\ CallAttempts[3].outcome = "SendQueueFull"
    /\ Cardinality(StartEmptyIn("Waiting")) = 2

\* C6: once a send of the call failed with anything but QueueFull, execute()
\* has returned an error, that send was the call's last, and neither the
\* slice it was for nor any slice after it in the scan was changed by the
\* call.
C6_FatalPropagation ==
    AttemptsWith({"ReactorStopped", "Other"}) # {} =>
        LET k == First(AttemptsWith({"ReactorStopped", "Other"}))
            f == CallAttempts[k].slice
        IN  /\ pc = "idle"
            /\ result = "err"
            /\ k = Len(CallAttempts)
            /\ \A i \in SliceIds : i >= f =>
                 /\ i \notin call_done
                 /\ (i \in start_empty /\ ~ext_touched) =>
                      /\ slices[i].status = "Empty"
                      /\ slices[i].request_time = NoTime

\* C6 witness: the reactor stopped after the call had turned a slice Waiting,
\* with slices still unvisited.
C6_Witness ==
    /\ Returned
    /\ result = "err"
    /\ call_done # {}
    /\ visited # SliceIds
    /\ Len(CallAttempts) > 0
    /\ CallAttempts[Len(CallAttempts)].outcome = "ReactorStopped"

\* C7: a call that found no Empty slice sends nothing and does not return
\* while it waits; as long as the channel is open it stays suspended until
\* another stage has raised the Empty count from 0; and when it then returns
\* Ok with every send accepted and no further change by another stage, it
\* has requested exactly the slices that were Empty when it woke.
C7_SuspendUntilWork ==
    /\ pc \in {"watch_check", "watch_wait"} =>
         /\ CallAttempts = <<>>
         /\ call_done = {}
         /\ result = "none"
    /\ (entered_zero /\ ~ext_raised /\ ~watch.closed) =>
         pc \in {"watch_check", "watch_wait"}
    /\ (entered_zero /\ Returned /\ result = "ok" /\ AllAccepted
          /\ ~ext_touched) =>
         /\ start_empty # {}
         /\ call_done = start_empty
         /\ {CallAttempts[k].slice : k \in 1 .. Len(CallAttempts)} = start_empty

\* C7 witness: a call that found nothing Empty was woken by another stage's
\* change and returned after requesting the slice.
C7_Witness ==
    /\ entered_zero
    /\ ext_raised
    /\ Returned
    /\ result = "ok"
    /\ ~ext_touched
    /\ call_done # {}

\* C8: whenever the stage does not hold a slice's write lock, the slice is
\* Empty with no request_time or Waiting with its request_time set.
C8_NoPartialMutation ==
    \A i \in SliceIds :
        "issuer" \notin lock[i].writer =>
            /\ slices[i].status = "Empty" => slices[i].request_time = NoTime
            /\ slices[i].status = "Waiting" => slices[i].request_time # NoTime

\* C8 witness: under its write lock the stage has set request_time and not
\* yet the status.
C8_Witness ==
    /\ pc = "set_status"
    /\ slices[cur].status = "Empty"
    /\ slices[cur].request_time # NoTime
    /\ "issuer" \in lock[cur].writer

\* C9: when the stage is suspended on the channel, has seen everything that
\* was published and the sender is gone, its next step returns an error from
\* execute(), with no request sent and no slice changed in the call.
C9_ClosedSubscription ==
    [][(pc = "watch_wait" /\ watch.closed /\ ~watch_unseen
          /\ pc' # "watch_wait") =>
         /\ pc' = "idle"
         /\ result' = "err"
         /\ slices' = slices
         /\ attempts' = attempts
         /\ Len(attempts) = call_base
         /\ call_done' = {}]_vars

\* C9 witness: a call returned the channel's error.
C9_Witness ==
    /\ call_stop = "closed"
    /\ watch.closed
    /\ entered_zero
    /\ Returned
    /\ result = "err"

\* C10: every message handed to the gateway has the visited slice's
\* start_block_num, limit 193, skip 0, reverse 0 and the filter Random(1);
\* and the first call on a store whose slices are all Empty, with every send
\* accepted, sends one message per slice with the ids 0, 1, 2, ... in
\* issuance order and leaves every slice Waiting.
C10_RequestMessage ==
    /\ \A k \in 1 .. Len(attempts) :
         LET m == attempts[k].message
         IN  /\ m.start_block = slices[attempts[k].slice].start_block_num
             /\ m.limit = 193
             /\ m.skip = 0
             /\ m.reverse = 0
             /\ m.peer_filter = <<"Random", 1>>
    /\ (calls = 1 /\ Returned /\ Scanned /\ AllAccepted /\ ~ext_touched
          /\ start_empty = SliceIds) =>
         /\ Len(attempts) = NumSlices
         /\ \A k \in 1 .. Len(attempts) : attempts[k].message.request_id = U64(k - 1)
         /\ {attempts[k].message.start_block : k \in 1 .. Len(attempts)}
              = {100 * i : i \in SliceIds}
         /\ \A i \in SliceIds : slices[i].status = "Waiting"

\* C10 witness: the first call sent for the slices at 100, 200 and 300.
C10_Witness ==
    /\ calls = 1
    /\ Returned
    /\ result = "ok"
    /\ ~ext_touched
    /\ start_empty = SliceIds
    /\ Len(attempts) = 3
    /\ AllAccepted
    /\ {attempts[k].message.start_block : k \in 1 .. 3} = {100, 200, 300}

\* A send of this call was answered QueueFull: the scan was stopped early.
Interrupted == AttemptsWith({"SendQueueFull"}) # {}

\* C11: execute() obtains and awaits the capacity future only in a call whose
\* scan was stopped by QueueFull, and a call whose scan was stopped by
\* QueueFull does not return Ok before its capacity future resolved, whatever
\* the other stages do to the slices meanwhile.
C11_CapacityWaitIffQueueFull ==
    /\ pc \in {"lock_sentry", "reserve", "await_capacity"} => Interrupted
    /\ capacity_resolved => Interrupted
    /\ (Returned /\ result = "ok" /\ Interrupted) => capacity_resolved

\* execute() is suspended: in changed() (line 51) or in the capacity future
\* (line 69).
Suspended == pc \in {"watch_wait", "await_capacity"}

IssuerHoldsSentry == "issuer" \in sentry_lock.readers \cup sentry_lock.writer

\* C12: while execute() is suspended the stage holds neither the gateway's
\* lock nor the lock of any slice, so every slice no other stage holds can
\* be locked by another stage.
C12_NoLockWhileSuspended ==
    Suspended =>
        /\ ~IssuerHoldsSentry
        /\ cur = 0
        /\ \A i \in SliceIds :
             /\ "issuer" \notin LockHolders(i)
             /\ "ext" \notin LockHolders(i) => CanLockUpgradable(lock[i])

\* C12 witness: the stage awaits capacity after it had the gateway locked to
\* obtain the future, and another stage holds a slice meanwhile.
C12_Witness ==
    /\ pc = "await_capacity"
    /\ sentry_lock.readers = {}
    /\ ext_cur # 0
    /\ call_done # {}

AfterScan == {"after_scan", "lock_sentry", "reserve", "await_capacity"}

\* C13: once the scan of a call has ended the call does not scan again, no
\* slice gets two sends in one call, and after a QueueFull answer the call
\* neither sends nor changes a slice any more, also when its capacity wait
\* completes.
C13_ScanOnce ==
    [][/\ pc \in AfterScan => pc' \in AfterScan \cup {"idle"}
       /\ \A i \in SliceIds :
            Cardinality({k \in 1 .. Len(CallAttempts) :
                           CallAttempts[k].slice = i}) <= 1
       /\ (Interrupted /\ calls' = calls /\ NoExtStep) =>
            /\ attempts' = attempts
            /\ slices' = slices
            /\ last_request_id' = last_request_id]_vars

\* C13 witness: a call stopped by QueueFull returned after its capacity wait
\* with slices it never visited still Empty.
C13_Witness ==
    /\ Returned
    /\ Interrupted
    /\ capacity_resolved
    /\ visited # SliceIds
    /\ \E i \in SliceIds \ visited : slices[i].status = "Empty"

\* Positions, over all calls, of the attempts the gateway accepted.
Accepted == {k \in 1 .. Len(attempts) : attempts[k].outcome = "Ok"}

\* The visitor stands between an accepted send and the write of Waiting.
MidTransition == pc \in {"upgrade", "set_status"}

\* C14: the requests the gateway accepted are as many as the transitions to
\* Waiting the stage made, but for the one accepted send whose slice the
\* visitor still holds locked and is about to transition; the slices a call
\* turned Waiting are the slices it had a request accepted for, and they are
\* Waiting with request_time set unless another stage changed them since.
C14_AcceptedEqualsTransitions ==
    LET okSlices == {CallAttempts[k].slice : k \in AttemptsWith({"Ok"})}
    IN  /\ Cardinality(Accepted)
             = transitions + (IF MidTransition THEN 1 ELSE 0)
        /\ MidTransition =>
             /\ "issuer" \in LockHolders(cur)
             /\ attempts[Len(attempts)] = Attempt(CurMessage, cur, "Ok")
        /\ call_done = okSlices \ (IF MidTransition THEN {cur} ELSE {})
        /\ ~ext_touched =>
             \A i \in call_done :
                 /\ slices[i].status = "Waiting"
                 /\ slices[i].request_time # NoTime

\* C14 witness: after two calls, one of them cut short by QueueFull, three
\* requests were accepted and three slices transitioned.
C14_Witness ==
    /\ Returned
    /\ calls = 2
    /\ transitions = 3
    /\ Cardinality(Accepted) = 3
    /\ Len(attempts) > 3

\* C15: the store's aggregate counts are the numbers of slices in each
\* status (so pending_count() is the number of Empty slices), and the stage
\* writes a status only while it holds the slice's write lock.
C15_CountsConsistent ==
    /\ \A st \in Statuses : CountSlicesInStatus(st) = CountOf(slices, st)
    /\ PendingCount = Cardinality({i \in SliceIds : slices[i].status = "Empty"})
    /\ pc = "set_status" => lock[cur].writer = {"issuer"}

\* C15 witness: the stage has transitioned two slices and another stage has
\* changed a status as well.
C15_Witness ==
    /\ transitions >= 2
    /\ ext_steps >= 1
    /\ pc = "set_status"
    /\ CountSlicesInStatus("Empty") >= 1

\* A step of another stage turns a slice back to Empty.
ResetToEmpty ==
    \E i \in SliceIds :
        slices[i].status # "Empty" /\ slices'[i].status = "Empty"

\* A round that starves a slice is complete: the stage, the store, the locks,
\* the channel and the gateway are where they were when the round began (the
\* shapes agree); a slice has been Empty all the way; and the stage's steps,
\* its lock requests, the other stages' releases and the transport have all
\* had their turn (the owner of the gateway holds no lock here).
StarvingRoundComplete ==
    /\ round_shape = <<Shape>>
    /\ round_starved # {}
    /\ round_fair = FairTurns
    /\ sentry_lock.writer = {}

C17_CounterCountsAttempts ==
    /\ \A k \in 1 .. Len(attempts) : attempts[k].message.request_id = U64(k - 1)
    /\ last_request_id = U64(Len(attempts) + (IF pc = "send" THEN 1 ELSE 0))
    /\ pc = "send" => request_id = U64(Len(attempts))
    /\ \A k \in 2 .. Len(attempts) :
         \A j \in 1 .. k - 1 :
             attempts[j].message.request_id # attempts[k].message.request_id

\* C17 witness: the ids of the accepted requests have a gap: between two
\* accepted requests an id went to a message the queue refused.
C17_Witness ==
    \E j, k, m \in 1 .. Len(attempts) :
        /\ j < k /\ k < m
        /\ attempts[j].outcome = "Ok"
        /\ attempts[k].outcome = "SendQueueFull"
        /\ attempts[m].outcome = "Ok"
        /\ attempts[j].message.request_id = U64(j - 1)
        /\ attempts[m].message.request_id = U64(j - 1 + (m - j))

\* C18: when execute() has returned an error, the slices the call turned
\* Waiting are still Waiting with their request_time (unless another stage
\* changed a slice since), every accepted request still has its transition,
\* and the counter stands past every id the call drew.
C18_NoRollback ==
    (Returned /\ result = "err") =>
        /\ ~ext_touched =>
             \A i \in call_done :
                 /\ slices[i].status = "Waiting"
                 /\ slices[i].request_time # NoTime
        /\ Cardinality(Accepted) = transitions
        /\ last_request_id = U64(call_base + Len(CallAttempts))
        /\ \A k \in 1 .. Len(CallAttempts) :
             U64Less(CallAttempts[k].message.request_id, last_request_id)

\* C18 witness: the reactor stopped while the call awaited capacity; the
\* call had turned slices Waiting and returned the future's error.
C18_Witness ==
    /\ Returned
    /\ result = "err"
    /\ capacity_resolved
    /\ Interrupted
    /\ ~ext_touched
    /\ Cardinality(call_done) >= 2
    /\ \A i \in call_done : slices[i].status = "Waiting"

====
